---- MODULE Spec2Model ----
(***************************************************************************)
(* Model of the Wolt markets scrapers: scripts/markets.py (all cities,     *)
(* catalog items resolved through an id pool) and scripts/markets_baku.py  *)
(* (one city, catalog items embedded in the sections).                     *)
(*                                                                         *)
(* Python values are modelled as follows.  A dict is a record (a function  *)
(* from its keys); a list is a sequence; None is the record None.  A JSON  *)
(* scalar whose type the code depends on is tagged: JInt(n), JStr(s),      *)
(* JNull.  A float holding an amount of hundredths is the record           *)
(* [units, hundredths] (value units + hundredths/100).                     *)
(***************************************************************************)
EXTENDS Integers, Sequences, FiniteSets, TLC

----------------------------------------------------------------------------
(* Bounds *)

MaxSections == 2    \* sections of an inline catalog document
MaxItemIds == 2     \* item ids listed by one category
MaxPool == 2        \* items of the top-level item pool
MaxInline == 2      \* items embedded in one section

----------------------------------------------------------------------------
(* Python values *)

None == [py_none |-> TRUE]
JInt(n) == [int |-> n]
JStr(s) == [str |-> s]
JNull == [null |-> TRUE]

IsInt(j) == "int" \in DOMAIN j
IsStr(j) == "str" \in DOMAIN j

\* dict.get(k, default)
Get(d, k, default) == IF k \in DOMAIN d THEN d[k] ELSE default

\* d[k] = v
Put(d, k, v) == [x \in DOMAIN d \cup {k} |-> IF x = k THEN v ELSE d[x]]

\* bool(x) for None, a tagged scalar, a dict or a list
Truthy(x) ==
    IF x = None \/ x = JNull THEN FALSE
    ELSE IF IsInt(x) THEN x.int # 0
    ELSE IF IsStr(x) THEN x.str # ""
    ELSE DOMAIN x # {}

\* ','.join(strs) for a list of str
RECURSIVE Join(_)
Join(strs) ==
    IF strs = <<>> THEN ""
    ELSE IF Len(strs) = 1 THEN strs[1]
    ELSE strs[1] \o "," \o Join(Tail(strs))

\* n / 100 for an int n
DivBy100(n) == [units |-> n \div 100, hundredths |-> n % 100]

\* round(num / den, 0) for den > 0, ties to even
RoundHalfEven(num, den) ==
    LET q == num \div den
        r == num % den
    IN  IF 2 * r < den THEN q
        ELSE IF 2 * r > den THEN q + 1
        ELSE IF q % 2 = 0 THEN q ELSE q + 1

\* DiscountPercentage dropping the digits after the second decimal
DiscountPercentage_Truncated(original, price) ==
    DivBy100(((original - price) * 10000) \div original)

\* round(((original - price) / original) * 100, 2) for original > 0
DiscountPercentage(original, price) ==
    DivBy100(RoundHalfEven((original - price) * 10000, original))

AllStr(list) == \A i \in DOMAIN list : IsStr(list[i])

----------------------------------------------------------------------------
(* Catalog normalizer: extract_items_from_venue *)

\* the outcome of a call: the exception it raised ("none" when it returned)
\* and the list it returned
Returned(list) == [raised |-> "none", items |-> list]
Raised(exc) == [raised |-> exc, items |-> <<>>]

RECURSIVE ConcatAll(_)
ConcatAll(lists) ==
    IF lists = <<>> THEN <<>> ELSE Head(lists) \o ConcatAll(Tail(lists))

\* [x if isinstance(x, str) else x.get('id', '') for x in list]
PlainIds(list) ==
    [i \in DOMAIN list |->
        IF IsStr(list[i]) THEN list[i].str ELSE Get(list[i], "id", "")]

\* the strings of a list of str
Strs(list) == [i \in DOMAIN list |-> list[i].str]

\* the exception raised while the item dict of one product is built
ItemError(script, item_data) ==
    LET price == Get(item_data, "price", JInt(0))
        original == Get(item_data, "original_price", None)
    IN  IF ~IsInt(price) THEN "TypeError"
        ELSE IF Truthy(original) /\ ~IsInt(original) THEN "TypeError"
        ELSE IF script = "markets"
                /\ ~AllStr(Get(item_data, "dietary_preferences", <<>>))
             THEN "TypeError"
        ELSE IF script = "markets" /\ ~AllStr(Get(item_data, "tags", <<>>))
             THEN "TypeError"
        ELSE "none"

\* 'original_price': ... / 100 if item_data.get('original_price') else None
OriginalPriceOf(item_data) ==
    LET original == Get(item_data, "original_price", None)
    IN  IF Truthy(original) THEN DivBy100(original.int) ELSE None

\* 'discount_amount' computed whether or not there is an original price
DiscountAmountOf_Unguarded(item_data) ==
    LET price == Get(item_data, "price", JInt(0)).int
        original == Get(item_data, "original_price", JInt(0))
    IN  DivBy100((IF IsInt(original) THEN original.int ELSE 0) - price)

\* 'discount_amount': (original_price - price) / 100
\*     if item_data.get('original_price') else 0
DiscountAmountOf(item_data) ==
    LET price == Get(item_data, "price", JInt(0)).int
        original == Get(item_data, "original_price", None)
    IN  IF Truthy(original) THEN DivBy100(original.int - price)
        ELSE DivBy100(0)

\* 'discount_percentage': round(...) if item_data.get('original_price')
\*     and item_data.get('original_price') > 0 else 0
DiscountPercentageOf(item_data) ==
    LET price == Get(item_data, "price", JInt(0)).int
        original == Get(item_data, "original_price", None)
    IN  IF Truthy(original) /\ original.int > 0
        THEN DiscountPercentage(original.int, price)
        ELSE DivBy100(0)

\* the item dict of one product (ItemError(script, item_data) = "none")
ItemRecord(script, item_data, venue_info, section, now) ==
    LET price == Get(item_data, "price", JInt(0)).int
        dietary == Get(item_data, "dietary_preferences", <<>>)
        tags == Get(item_data, "tags", <<>>)
    IN  [item_id |-> Get(item_data, "id", ""),
         venue_id |-> Get(venue_info, "id", ""),
         venue_name |-> Get(venue_info, "name", ""),
         venue_slug |-> Get(venue_info, "slug", ""),
         city |-> Get(venue_info, "city_name", ""),
         city_slug |-> Get(venue_info, "city_slug", ""),
         section_name |-> Get(section, "name", ""),
         section_slug |-> Get(section, "slug", ""),
         price |-> DivBy100(price),
         original_price |-> OriginalPriceOf(item_data),
         discount_amount |-> DiscountAmountOf(item_data),
         discount_percentage |-> DiscountPercentageOf(item_data),
         dietary_preferences |->
            IF script = "markets" THEN Join(Strs(dietary))
            ELSE Join(PlainIds(dietary)),
         tags |->
            IF script = "markets" THEN Join(Strs(tags))
            ELSE Join(PlainIds(tags)),
         scraped_at |-> now]

\* the item dicts with ids that tell the time of the call
BuildItems_StampedIds(script, sources, venue_info, now) ==
    LET bad == {n \in DOMAIN sources :
                    ItemError(script, sources[n].item_data) # "none"}
    IN  IF bad # {}
        THEN Raised(ItemError(script,
                 sources[CHOOSE n \in bad : \A m \in bad : n <= m].item_data))
        ELSE Returned([n \in DOMAIN sources |->
                 Put(ItemRecord(script, sources[n].item_data, venue_info,
                                sources[n].section, now),
                     "item_id",
                     Get(sources[n].item_data, "id", "") \o "@"
                         \o ToString(now))])

\* the item dicts of a list of product sources, or the first exception
BuildItems(script, sources, venue_info, now) ==
    LET bad == {n \in DOMAIN sources :
                    ItemError(script, sources[n].item_data) # "none"}
    IN  IF bad # {}
        THEN Raised(ItemError(script,
                 sources[CHOOSE n \in bad : \A m \in bad : n <= m].item_data))
        ELSE Returned([n \in DOMAIN sources |->
                 IF script = "markets"
                 THEN Put(ItemRecord(script, sources[n].item_data, venue_info,
                                     sources[n].section, now),
                          "category_id", sources[n].category_id)
                 ELSE ItemRecord(script, sources[n].item_data, venue_info,
                                 sources[n].section, now)])

\* items_dict = {item['id']: item for item in all_items_data}
ItemsDict(all_items_data) ==
    [k \in {all_items_data[i].id : i \in DOMAIN all_items_data} |->
        all_items_data[CHOOSE i \in DOMAIN all_items_data :
            /\ all_items_data[i].id = k
            /\ \A j \in DOMAIN all_items_data :
                  all_items_data[j].id = k => j <= i]]

\* the walk of markets.py leaving a category at the first id it cannot resolve
IndexedSources_StopAtUnknown(venue_sections, items_dict) ==
    ConcatAll([s \in DOMAIN venue_sections |->
        LET categories == Get(venue_sections[s], "categories", <<>>)
        IN  ConcatAll([c \in DOMAIN categories |->
                LET item_ids == Get(categories[c], "item_ids", <<>>)
                    unknown == {k \in DOMAIN item_ids :
                                    item_ids[k] \notin DOMAIN items_dict}
                    known == {k \in DOMAIN item_ids : \A u \in unknown : k < u}
                IN  [n \in known |->
                        [item_data |-> items_dict[item_ids[n]],
                         section |-> venue_sections[s],
                         category_id |-> Get(categories[c], "id", "")]]])])

\* the loop over sections, categories and item ids of markets.py
IndexedSources(venue_sections, items_dict) ==
    ConcatAll([s \in DOMAIN venue_sections |->
        LET categories == Get(venue_sections[s], "categories", <<>>)
        IN  ConcatAll([c \in DOMAIN categories |->
                LET item_ids == Get(categories[c], "item_ids", <<>>)
                    listed == [k \in DOMAIN item_ids |->
                                 [item_id |-> item_ids[k],
                                  section |-> venue_sections[s],
                                  category_id |-> Get(categories[c], "id", "")]]
                    known == SelectSeq(listed,
                                 LAMBDA l : l.item_id \in DOMAIN items_dict)
                IN  [n \in DOMAIN known |->
                        [item_data |-> items_dict[known[n].item_id],
                         section |-> known[n].section,
                         category_id |-> known[n].category_id]]])])

\* markets.py giving one product per item of the pool, listed or not
ExtractIndexed_WholePool(venue_data, venue_info, now) ==
    IF ~Truthy(venue_data) THEN Returned(<<>>)
    ELSE LET venue_sections == Get(venue_data, "sections", <<>>)
             all_items_data == Get(venue_data, "items", <<>>)
         IN  IF \E i \in DOMAIN all_items_data :
                    "id" \notin DOMAIN all_items_data[i]
             THEN Raised("KeyError")
             ELSE BuildItems("markets",
                      [n \in DOMAIN all_items_data |->
                          [item_data |-> all_items_data[n],
                           section |-> [name |-> "", slug |-> ""],
                           category_id |-> ""]],
                      venue_info, now)

\* extract_items_from_venue of markets.py
ExtractIndexed(venue_data, venue_info, now) ==
    IF ~Truthy(venue_data) THEN Returned(<<>>)
    ELSE LET venue_sections == Get(venue_data, "sections", <<>>)
             all_items_data == Get(venue_data, "items", <<>>)
         IN  IF \E i \in DOMAIN all_items_data :
                    "id" \notin DOMAIN all_items_data[i]
             THEN Raised("KeyError")
             ELSE BuildItems("markets",
                      IndexedSources(venue_sections, ItemsDict(all_items_data)),
                      venue_info, now)

\* the walk of markets_baku.py keeping the name and slug of the first section
InlineSources_FirstSection(venue_sections) ==
    ConcatAll([s \in DOMAIN venue_sections |->
        LET section_items == Get(venue_sections[s], "items", <<>>)
        IN  [n \in DOMAIN section_items |->
                [item_data |-> section_items[n],
                 section |-> venue_sections[1]]]])

\* the loop over sections and their items of markets_baku.py
InlineSources(venue_sections) ==
    ConcatAll([s \in DOMAIN venue_sections |->
        LET section_items == Get(venue_sections[s], "items", <<>>)
        IN  [n \in DOMAIN section_items |->
                [item_data |-> section_items[n],
                 section |-> venue_sections[s]]]])

\* extract_items_from_venue of markets_baku.py
ExtractInline(venue_data, venue_info, now) ==
    IF ~Truthy(venue_data) THEN Returned(<<>>)
    ELSE LET venue_sections == Get(venue_data, "sections", <<>>)
         IN  IF venue_sections = <<>> THEN Returned(<<>>)
             ELSE BuildItems("markets_baku", InlineSources(venue_sections),
                             venue_info, now)

extract_items_from_venue(script, venue_data, venue_info, now) ==
    IF script = "markets" THEN ExtractIndexed(venue_data, venue_info, now)
    ELSE ExtractInline(venue_data, venue_info, now)

----------------------------------------------------------------------------
(* HTTP fetch gateway: make_request *)

\* the methods a caller may pass, and method.upper()
Methods == {"GET", "get", "POST", "post", "PUT", "Delete"}
Upper(method) ==
    CASE method \in {"GET", "get"} -> "GET"
      [] method \in {"POST", "post"} -> "POST"
      [] method = "PUT" -> "PUT"
      [] OTHER -> "DELETE"

\* what the HTTP transport does with one request: it raises a
\* requests.exceptions.RequestException, or it answers with a status and a
\* body that is a JSON document or is not valid JSON
TransportError(exc) == [kind |-> exc]
Response(status, body) == [kind |-> "response", status |-> status, body |-> body]
InvalidJson == [invalid_json |-> TRUE]

\* make_request sleeping after the request instead of before it
make_request_SendsFirst(method, transport) ==
    IF Upper(method) \notin {"GET", "POST"}
    THEN [raised |-> "ValueError", value |-> None, slept |-> 1, sent |-> 0,
          effects |-> <<"sleep">>]
    ELSE IF transport.kind # "response"
    THEN [raised |-> "none", value |-> None, slept |-> 1, sent |-> 1,
          effects |-> <<"send", "sleep">>]
    ELSE IF transport.status >= 400 /\ transport.status < 600
    THEN [raised |-> "none", value |-> None, slept |-> 1, sent |-> 1,
          effects |-> <<"send", "sleep">>]
    ELSE IF transport.body = InvalidJson
    THEN [raised |-> "none", value |-> None, slept |-> 1, sent |-> 1,
          effects |-> <<"send", "sleep">>]
    ELSE [raised |-> "none", value |-> transport.body, slept |-> 1, sent |-> 1,
          effects |-> <<"send", "sleep">>]

\* make_request without "except json.JSONDecodeError"
make_request_DecodeUncaught(method, transport) ==
    IF Upper(method) \notin {"GET", "POST"}
    THEN [raised |-> "ValueError", value |-> None, slept |-> 1, sent |-> 0,
          effects |-> <<"sleep">>]
    ELSE IF transport.kind # "response"
    THEN [raised |-> "none", value |-> None, slept |-> 1, sent |-> 1,
          effects |-> <<"sleep", "send">>]
    ELSE IF transport.status >= 400 /\ transport.status < 600
    THEN [raised |-> "none", value |-> None, slept |-> 1, sent |-> 1,
          effects |-> <<"sleep", "send">>]
    ELSE IF transport.body = InvalidJson
    THEN [raised |-> "JSONDecodeError", value |-> None, slept |-> 1, sent |-> 1,
          effects |-> <<"sleep", "send">>]
    ELSE [raised |-> "none", value |-> transport.body, slept |-> 1, sent |-> 1,
          effects |-> <<"sleep", "send">>]

\* the outcome of make_request: the exception that leaves it ("none" when it
\* returns), the value it returns, the delays it slept, the HTTP requests
\* it issued, and the order of its sleeps and requests
make_request(method, transport) ==
    IF Upper(method) \notin {"GET", "POST"}
    THEN [raised |-> "ValueError", value |-> None, slept |-> 1, sent |-> 0,
          effects |-> <<"sleep">>]
    ELSE IF transport.kind # "response"
    THEN [raised |-> "none", value |-> None, slept |-> 1, sent |-> 1,
          effects |-> <<"sleep", "send">>]
    ELSE IF transport.status >= 400 /\ transport.status < 600
    THEN [raised |-> "none", value |-> None, slept |-> 1, sent |-> 1,
          effects |-> <<"sleep", "send">>]
    ELSE IF transport.body = InvalidJson
    THEN [raised |-> "none", value |-> None, slept |-> 1, sent |-> 1,
          effects |-> <<"sleep", "send">>]
    ELSE [raised |-> "none", value |-> transport.body, slept |-> 1, sent |-> 1,
          effects |-> <<"sleep", "send">>]

----------------------------------------------------------------------------
(* Venue discovery: fetch_retail_markets, on the value the gateway returned *)

\* fetch_retail_markets returning after the first section
fetch_retail_markets_FirstSection(data, city_slug) ==
    IF ~Truthy(data) THEN <<>>
    ELSE LET sections == Get(data, "sections", <<>>)
         IN  ConcatAll([s \in DOMAIN sections \cap {1} |->
                 LET items == Get(sections[s], "items", <<>>)
                     venues == SelectSeq(items, LAMBDA item : "venue" \in DOMAIN item)
                 IN  [n \in DOMAIN venues |->
                         Put(Put(venues[n].venue, "city_slug", city_slug),
                             "city_name", Get(data, "city", ""))]])

fetch_retail_markets(data, city_slug) ==
    IF ~Truthy(data) THEN <<>>
    ELSE LET sections == Get(data, "sections", <<>>)
         IN  ConcatAll([s \in DOMAIN sections |->
                 LET items == Get(sections[s], "items", <<>>)
                     venues == SelectSeq(items, LAMBDA item : "venue" \in DOMAIN item)
                 IN  [n \in DOMAIN venues |->
                         Put(Put(venues[n].venue, "city_slug", city_slug),
                             "city_name", Get(data, "city", ""))]])

----------------------------------------------------------------------------
(* Upstream documents the crawl is run against *)

ItemA == [id |-> "a", price |-> JInt(250),
          tags |-> <<JStr("beer"), JStr("local")>>]
ItemA2 == [id |-> "a", price |-> JInt(199)]
ItemB == [id |-> "b", price |-> JInt(300), original_price |-> JInt(400),
          dietary_preferences |-> <<JStr("vegan")>>]
ItemTagObj == [id |-> "c", price |-> JInt(120),
               tags |-> <<[id |-> "beer"], [id |-> "local"]>>]
ItemBadPrice == [id |-> "d", price |-> JStr("2.50")]
ItemNoId == [price |-> JInt(100)]

Venue1 == [id |-> "v1", name |-> "Market One", slug |-> "market-one",
           tags |-> <<JStr("grocery")>>]
VenueNoSlug == [id |-> "v2", name |-> "Market Two"]
VenueTagObj == [id |-> "v3", name |-> "Market Three", slug |-> "market-three",
                tags |-> <<[id |-> "grocery"]>>]
NonVenue == [link |-> "banner"]

Wrap(venue) == [venue |-> venue]

EmptyDict == << >>

CrawlDiscoveryDocs ==
    { [city |-> "Baku", sections |-> <<>>],
      [city |-> "Baku",
       sections |-> <<[items |-> <<Wrap(Venue1), NonVenue>>]>>],
      [city |-> "Baku",
       sections |-> <<[items |-> <<Wrap(Venue1)>>],
                      [items |-> <<NonVenue, Wrap(Venue1)>>]>>],
      [city |-> "Baku",
       sections |-> <<[items |-> <<Wrap(VenueNoSlug), Wrap(Venue1)>>]>>],
      [city |-> "Baku",
       sections |-> <<[items |-> <<Wrap(Venue1), Wrap(VenueTagObj)>>]>>] }

IndexedDoc ==
    [items |-> <<ItemA, ItemB>>,
     sections |-> <<[name |-> "Drinks", slug |-> "drinks",
                     categories |-> <<[id |-> "c1",
                                       item_ids |-> <<"b", "zz", "a">>]>>]>>]
IndexedDocNoId ==
    [items |-> <<ItemA, ItemNoId>>,
     sections |-> <<[name |-> "Drinks", slug |-> "drinks",
                     categories |-> <<[id |-> "c1", item_ids |-> <<"a">>]>>]>>]
InlineDoc ==
    [sections |-> <<[name |-> "Drinks", slug |-> "drinks",
                     items |-> <<ItemA, ItemTagObj>>]>>]
InlineDocBadPrice ==
    [sections |-> <<[name |-> "Drinks", slug |-> "drinks",
                     items |-> <<ItemA, ItemBadPrice>>]>>]

CrawlCatalogDocs ==
    {EmptyDict, IndexedDoc, IndexedDocNoId, InlineDoc, InlineDocBadPrice}

MaxCities == 2      \* cities of a city listing

BASE_URL == "https://restaurant-api.wolt.com"
CONSUMER_API_URL == "https://consumer-api.wolt.com"
DEFAULT_LAT == "40.373141313556964"
DEFAULT_LON == "49.84575754727883"

\* the n-th city of a city listing; the third one carries no location
City(n) ==
    IF n = 1
    THEN [slug |-> "baku", name |-> "Baku",
          location |-> [coordinates |-> <<DEFAULT_LON, DEFAULT_LAT>>]]
    ELSE IF n = 2
    THEN [slug |-> "ganja", name |-> "Ganja",
          location |-> [coordinates |-> <<"46.36", "40.68">>]]
    ELSE [slug |-> "sumqayit", name |-> "Sumqayit"]
CrawlCityDocs ==
    {[status |-> "ok"]}
    \cup {[results |-> [i \in 1..n |-> City(i)]] : n \in 0..MaxCities}

Failures ==
    {TransportError("ConnectionError"), TransportError("Timeout"),
     Response(404, InvalidJson), Response(500, EmptyDict),
     Response(200, InvalidJson)}

Transports(docs) == Failures \cup {Response(200, d) : d \in docs}

----------------------------------------------------------------------------
(* The scraper: WoltMarketsScraper.run                                     *)

VARIABLES
    script,         \* "markets" (markets.py) or "markets_baku" (markets_baku.py)
    pc,             \* the statement run() is at
    cities,         \* scrape_all_markets: cities (one target city in markets_baku)
    city,           \* index in cities of the city being processed
    data,           \* fetch_retail_markets: data
    markets,        \* the markets discovered for the city
    market,         \* index in markets of the market being processed
    venue_details,  \* the catalog document fetched for the market
    self_markets,   \* self.markets
    self_items,     \* self.items
    files,          \* the files save_to_csv has written
    raised,         \* the exception run() is handling or has raised
    last_call,      \* the last call of make_request
    clock           \* time, in delays of make_request

vars == <<script, pc, cities, city, data, markets, market, venue_details,
          self_markets, self_items, files, raised, last_call, clock>>

NoException == [type |-> "none", origin |-> "none"]
NoCall == [url |-> "", method |-> "", transport |-> None,
           raised |-> "none", value |-> None, slept |-> 0, sent |-> 0,
           effects |-> <<>>]

\* the record of one call of make_request(url, method) answered by transport
Call(url, method, transport) ==
    LET r == make_request(method, transport)
    IN  [url |-> url, method |-> method, transport |-> transport,
         raised |-> r.raised, value |-> r.value, slept |-> r.slept,
         sent |-> r.sent, effects |-> r.effects]

CitiesUrl == BASE_URL \o "/v1/cities"
RetailUrl(lat, lon) ==
    CONSUMER_API_URL \o "/v1/pages/retail?lat=" \o lat \o "&lon=" \o lon
VenueContentUrl(venue_slug) ==
    CONSUMER_API_URL
        \o "/consumer-api/venue-content-api/v3/web/venue-content/slug/"
        \o venue_slug

DefaultCity ==
    [slug |-> "baku", name |-> "Baku",
     location |-> [coordinates |-> <<DEFAULT_LON, DEFAULT_LAT>>]]

\* markets_baku.py: target_city and target_city.capitalize()
TargetCity == [slug |-> "baku", name |-> "Baku"]

Coordinates(c) ==
    Get(Get(c, "location", EmptyDict), "coordinates",
        <<DEFAULT_LON, DEFAULT_LAT>>)

\* the exception raised while the dict of one market is built
MarketError(m) ==
    IF ~AllStr(Get(m, "tags", <<>>)) THEN "TypeError" ELSE "none"

\* the dict appended to self.markets
MarketRecord(m, c, now) ==
    [venue_id |-> Get(m, "id", ""),
     name |-> Get(m, "name", ""),
     slug |-> Get(m, "slug", ""),
     city |-> Get(c, "name", ""),
     city_slug |-> Get(c, "slug", ""),
     tags |-> Join(Strs(Get(m, "tags", <<>>))),
     scraped_at |-> now]

\* self.markets with the new market put first
AppendRecord_Prepends(records, record) == <<record>> \o records

\* self.markets holding only the market appended last
AppendRecord_KeepsLast(records, record) == <<record>>

\* self.markets.append(market_data)
AppendRecord(records, record) == Append(records, record)

\* self.items overwritten by the items of the last venue
ExtendRecords_Replaces(records, new) == new

\* self.items.extend(venue_items)
ExtendRecords(records, new) == records \o new

\* the city loop left at the first city without markets
EndOfCity_Stops == city' = city /\ pc' = "save_to_csv"

\* the statement after the body of "for city in cities" has run for
\* cities[city] (markets_baku.py has no such loop: scrape_markets returns)
EndOfCity ==
    IF script = "markets" /\ city < Len(cities)
    THEN city' = city + 1 /\ pc' = "fetch_retail_markets"
    ELSE city' = city /\ pc' = "save_to_csv"

\* the market loop left at the first market without a catalog
EndOfMarket_Stops == market' = market /\ city' = city /\ pc' = "save_to_csv"

\* the statement after the body of "for market in markets" has run for
\* markets[market]
EndOfMarket ==
    IF market < Len(markets)
    THEN /\ market' = market + 1
         /\ pc' = "append_market"
         /\ city' = city
    ELSE /\ market' = market
         /\ EndOfCity

Init ==
    /\ script \in {"markets", "markets_baku"}
    /\ pc = IF script = "markets" THEN "fetch_cities" ELSE "fetch_retail_markets"
    /\ cities = IF script = "markets" THEN <<>> ELSE <<TargetCity>>
    /\ city = 1
    /\ data = None
    /\ markets = <<>>
    /\ market = 1
    /\ venue_details = None
    /\ self_markets = <<>>
    /\ self_items = <<>>
    /\ files = {}
    /\ raised = NoException
    /\ last_call = NoCall
    /\ clock = 0

\* markets.py: cities = self.fetch_cities(), and the default location
FetchCities(docs) ==
    /\ pc = "fetch_cities"
    /\ \E transport \in Transports(docs) :
        LET call == Call(CitiesUrl, "GET", transport)
            found == IF Truthy(call.value) /\ "results" \in DOMAIN call.value
                     THEN call.value.results ELSE <<>>
        IN  /\ last_call' = call
            /\ cities' = IF found = <<>> THEN <<DefaultCity>> ELSE found
    /\ clock' = clock + 1
    /\ pc' = "fetch_retail_markets"
    /\ UNCHANGED <<script, city, data, markets, market, venue_details,
                   self_markets, self_items, files, raised>>

\* markets = self.fetch_retail_markets(lat, lon, city_slug), and the test
\* for an empty result
FetchRetailMarkets(docs) ==
    /\ pc = "fetch_retail_markets"
    /\ \E transport \in Transports(docs) :
        LET coords == Coordinates(cities[city])
            call == Call(RetailUrl(coords[2], coords[1]), "GET", transport)
            found == fetch_retail_markets(call.value,
                                          Get(cities[city], "slug", ""))
        IN  /\ last_call' = call
            /\ data' = call.value
            /\ markets' = found
            /\ IF found # <<>>
               THEN pc' = "append_market" /\ city' = city
               ELSE EndOfCity
    /\ market' = 1
    /\ clock' = clock + 1
    /\ UNCHANGED <<script, cities, venue_details, self_markets, self_items,
                   files, raised>>

\* self.markets.append(market_data)
AppendMarket ==
    /\ pc = "append_market"
    /\ IF MarketError(markets[market]) # "none"
       THEN /\ raised' = [type |-> MarketError(markets[market]),
                          origin |-> "scrape_markets"]
            /\ pc' = "except"
            /\ UNCHANGED self_markets
       ELSE /\ self_markets' =
                AppendRecord(self_markets,
                             MarketRecord(markets[market], cities[city], clock))
            /\ pc' = "fetch_venue_details"
            /\ UNCHANGED raised
    /\ UNCHANGED <<script, cities, city, data, markets, market, venue_details,
                   self_items, files, last_call, clock>>

\* venue_details = self.fetch_venue_details(market_slug), and the test
\* "if venue_details"
FetchVenueDetails(docs) ==
    /\ pc = "fetch_venue_details"
    /\ \E transport \in Transports(docs) :
        LET call == Call(VenueContentUrl(Get(markets[market], "slug", "")),
                         "GET", transport)
        IN  /\ last_call' = call
            /\ venue_details' = call.value
            /\ IF Truthy(call.value)
               THEN pc' = "extract_items" /\ UNCHANGED <<market, city>>
               ELSE EndOfMarket
    /\ clock' = clock + 1
    /\ UNCHANGED <<script, cities, data, markets, self_markets, self_items,
                   files, raised>>

\* venue_items = self.extract_items_from_venue(venue_details, market) and
\* self.items.extend(venue_items)
ExtractItems ==
    /\ pc = "extract_items"
    /\ LET r == extract_items_from_venue(script, venue_details,
                                         markets[market], clock)
       IN  IF r.raised # "none"
           THEN /\ raised' = [type |-> r.raised,
                              origin |-> "extract_items_from_venue"]
                /\ pc' = "except"
                /\ UNCHANGED <<self_items, market, city>>
           ELSE /\ self_items' = ExtendRecords(self_items, r.items)
                /\ EndOfMarket
                /\ UNCHANGED raised
    /\ UNCHANGED <<script, cities, data, markets, venue_details, self_markets,
                   files, last_call, clock>>

\* the paths of save_to_csv, relative to output_dir
MarketsFile ==
    IF script = "markets" THEN "markets.csv"
    ELSE "markets_" \o TargetCity.slug \o ".csv"
ItemsFile ==
    IF script = "markets" THEN "items.csv"
    ELSE "items_" \o TargetCity.slug \o ".csv"
SummaryFile ==
    IF script = "markets" THEN "scrape_summary.txt"
    ELSE "scrape_summary_" \o TargetCity.slug \o ".txt"

\* the files save_to_csv writes
SavedFiles(ms, its) ==
    (IF ms # <<>> THEN {MarketsFile} ELSE {})
        \cup (IF its # <<>> THEN {ItemsFile} ELSE {})
        \cup {SummaryFile}

\* self.save_to_csv()
SaveToCsv ==
    /\ pc = "save_to_csv"
    /\ files' = files \cup SavedFiles(self_markets, self_items)
    /\ pc' = "done"
    /\ UNCHANGED <<script, cities, city, data, markets, market, venue_details,
                   self_markets, self_items, raised, last_call, clock>>

\* run(): except Exception: logger.error(...); raise
Reraise ==
    /\ pc = "except"
    /\ pc' = "raised"
    /\ UNCHANGED <<script, cities, city, data, markets, market, venue_details,
                   self_markets, self_items, files, raised, last_call, clock>>

\* one step of run() against an upstream that answers with these documents
Step(cityDocs, listingDocs, catalogDocs) ==
    \/ FetchCities(cityDocs)
    \/ FetchRetailMarkets(listingDocs)
    \/ AppendMarket
    \/ FetchVenueDetails(catalogDocs)
    \/ ExtractItems
    \/ SaveToCsv
    \/ Reraise

Next == Step(CrawlCityDocs, CrawlDiscoveryDocs, CrawlCatalogDocs)

Spec == Init /\ [][Next]_vars

----------------------------------------------------------------------------
(* The gateway called with any method and any answer of the transport *)

GatewayUrls == {CitiesUrl, RetailUrl(DEFAULT_LAT, DEFAULT_LON),
                VenueContentUrl("market-one")}

GatewayTransports ==
    Transports(CrawlCityDocs \cup CrawlDiscoveryDocs \cup CrawlCatalogDocs)
        \cup {Response(201, IndexedDoc), Response(300, InlineDoc),
              Response(304, InvalidJson), Response(399, InvalidJson),
              Response(400, IndexedDoc), Response(599, IndexedDoc),
              Response(600, InlineDoc)}

MaxRequests == 2    \* calls of the gateway by one caller

\* self.make_request(url, method)
MakeRequest ==
    /\ pc \in {"fetch_cities", "fetch_retail_markets"}
    /\ clock < MaxRequests
    /\ \E url \in GatewayUrls, method \in Methods,
          transport \in GatewayTransports :
        LET call == Call(url, method, transport)
        IN  /\ last_call' = call
            /\ IF call.raised # "none"
               THEN /\ raised' = [type |-> call.raised, origin |-> "make_request"]
                    /\ pc' = "except"
               ELSE UNCHANGED <<raised, pc>>
    /\ clock' = clock + 1
    /\ UNCHANGED <<script, cities, city, data, markets, market, venue_details,
                   self_markets, self_items, files>>

NextGateway == MakeRequest \/ Reraise

SpecGateway == Init /\ [][NextGateway]_vars

----------------------------------------------------------------------------
(* Discovery against every listing within the bounds *)

MaxListingSections == 2     \* sections of a retail listing
MaxWrappers == 3            \* wrapper items of one section of a listing

SeqsUpTo(S, n) == UNION {[1..k -> S] : k \in 0..n}

VenueIds == <<<<"v11", "v12", "v13", "v14">>, <<"v21", "v22", "v23", "v24">>,
              <<"v31", "v32", "v33", "v34">>>>

\* the wrapper at position k of section s: one that carries a venue, whose
\* id tells its position, or one that carries none
ListingWrapper(s, k, kind) ==
    IF kind = "venue"
    THEN Wrap([id |-> VenueIds[s][k], name |-> "Market " \o VenueIds[s][k],
               slug |-> "market-" \o VenueIds[s][k]])
    ELSE NonVenue

\* the sections of a listing: each has no items key, or wrapper items
ListingSectionChoices ==
    {<<"none", <<>>>>}
        \cup {<<"items", w>> : w \in SeqsUpTo({"venue", "other"}, MaxWrappers)}
ListingSection(s, choice) ==
    IF choice[1] = "none" THEN [title |-> "Stores"]
    ELSE [items |-> [k \in DOMAIN choice[2] |->
                        ListingWrapper(s, k, choice[2][k])]]

ListingDocs ==
    {[city |-> "Baku"]}
        \cup {[city |-> "Baku",
               sections |-> [s \in DOMAIN choices |->
                                ListingSection(s, choices[s])]] :
                choices \in SeqsUpTo(ListingSectionChoices, MaxListingSections)}

NextDiscover == FetchCities({}) \/ FetchRetailMarkets(ListingDocs)

SpecDiscover == Init /\ [][NextDiscover]_vars

----------------------------------------------------------------------------
(* The normalizers against every catalog document within the bounds *)

SectionNames == <<"Drinks", "Snacks", "Dairy", "Bakery">>
SectionSlugs == <<"drinks", "snacks", "dairy", "bakery">>

PoolKinds == {ItemA, ItemB, ItemNoId}
ListedIds == {"a", "b", "zz"}
InlineKinds == {ItemA, ItemB, ItemBadPrice}

\* a section at position s without keys other than its name and slug
BareSection(s) == [name |-> SectionNames[s], slug |-> SectionSlugs[s]]

\* indexed documents: an item pool and two sections of one category each
IndexedSection(s, ids) ==
    Put(BareSection(s), "categories",
        <<[id |-> (IF s = 1 THEN "c1" ELSE "c2"), item_ids |-> ids]>>)
IndexedDocs ==
    {[items |-> pool,
      sections |-> <<IndexedSection(1, ids1), IndexedSection(2, ids2)>>] :
        pool \in SeqsUpTo(PoolKinds, MaxPool),
        ids1 \in SeqsUpTo(ListedIds, MaxItemIds),
        ids2 \in SeqsUpTo(ListedIds, MaxItemIds)}

\* inline documents: sections that have no items key, or embedded items
InlineSectionChoices ==
    {<<"none", <<>>>>}
        \cup {<<"items", its>> : its \in SeqsUpTo(InlineKinds, MaxInline)}
InlineSection(s, choice) ==
    IF choice[1] = "none" THEN BareSection(s)
    ELSE Put(BareSection(s), "items", choice[2])
InlineDocs ==
    {[sections |-> [s \in DOMAIN choices |-> InlineSection(s, choices[s])]] :
        choices \in SeqsUpTo(InlineSectionChoices, MaxSections)}

\* documents outside the two families: two categories in a section, a
\* listed item that is malformed, a pool next to inline items, no sections
IndexedDocTwoCategories ==
    [items |-> <<ItemA, ItemB>>,
     sections |-> <<[name |-> "Drinks", slug |-> "drinks",
                     categories |-> <<[id |-> "c1", item_ids |-> <<"b", "zz">>],
                                      [id |-> "c2", item_ids |-> <<"a", "b">>]>>],
                    [name |-> "Snacks", slug |-> "snacks",
                     categories |-> <<[id |-> "c3", item_ids |-> <<"a">>]>>]>>]
IndexedDocBadPrice ==
    [items |-> <<ItemA, ItemBadPrice>>,
     sections |-> <<[name |-> "Drinks", slug |-> "drinks",
                     categories |-> <<[id |-> "c1", item_ids |-> <<"a", "d">>]>>]>>]
IndexedDocTagObj ==
    [items |-> <<ItemTagObj>>,
     sections |-> <<[name |-> "Drinks", slug |-> "drinks",
                     categories |-> <<[id |-> "c1", item_ids |-> <<"zz", "c">>]>>]>>]
IndexedDocDuplicateId ==
    [items |-> <<ItemA, ItemA2>>,
     sections |-> <<[name |-> "Drinks", slug |-> "drinks",
                     categories |-> <<[id |-> "c1", item_ids |-> <<"a", "a">>]>>]>>]
InlineDocNoId ==
    [sections |-> <<[name |-> "Drinks", slug |-> "drinks",
                     items |-> <<ItemNoId, ItemA>>]>>]
MixedDoc ==
    [items |-> <<ItemA, ItemB>>,
     sections |-> <<[name |-> "Drinks", slug |-> "drinks",
                     items |-> <<ItemB>>]>>]
PoolOnlyDoc == [items |-> <<ItemA>>]
PoolOnlyDocNoId == [items |-> <<ItemNoId>>]

OtherCatalogDocs ==
    CrawlCatalogDocs
        \cup {IndexedDocTwoCategories, IndexedDocBadPrice, IndexedDocTagObj,
              IndexedDocDuplicateId, InlineDocNoId, MixedDoc, PoolOnlyDoc,
              PoolOnlyDocNoId}

OneVenueListing ==
    [city |-> "Baku", sections |-> <<[items |-> <<Wrap(Venue1)>>]>>]

\* markets.py run on one venue
NextIndexed ==
    Step({}, {OneVenueListing}, IndexedDocs \cup OtherCatalogDocs)

InitIndexed == Init /\ script = "markets"

SpecIndexed == InitIndexed /\ [][NextIndexed]_vars

\* markets_baku.py run on one venue
NextInline ==
    \/ FetchRetailMarkets({OneVenueListing})
    \/ AppendMarket
    \/ FetchVenueDetails(InlineDocs \cup OtherCatalogDocs)
    \/ ExtractItems
    \/ SaveToCsv
    \/ Reraise

InitInline == Init /\ script = "markets_baku"

SpecInline == InitInline /\ [][NextInline]_vars

----------------------------------------------------------------------------
(* The normalizers against one item of every price and original price *)

MaxPrice == 4       \* the largest price, in steps of 50 minor units

\* k steps of 50 minor units
MinorUnits(k) == k * 50

\* the price of an item: no key, or a number of minor units (the upstream
\* JSON holds any integer, a negative one included)
PriceChoices ==
    {None} \cup {JInt(MinorUnits(k)) : k \in (0 - 1)..MaxPrice}

\* the original price of an item: no key, null, or a number of minor units
OriginalChoices ==
    {None, JNull} \cup {JInt(MinorUnits(k)) : k \in 0..MaxPrice}

PricedItem(price, original) ==
    LET base == [id |-> "p", name |-> "Priced"]
        withPrice == IF price = None THEN base ELSE Put(base, "price", price)
    IN  IF original = None THEN withPrice
        ELSE Put(withPrice, "original_price", original)

\* a document from which either script extracts the one item: it is in the
\* pool and listed by a category, and it is embedded in the section
PricedDoc(item) ==
    [items |-> <<item>>,
     sections |-> <<[name |-> "Drinks", slug |-> "drinks",
                     categories |-> <<[id |-> "c1", item_ids |-> <<"p">>]>>,
                     items |-> <<item>>]>>]

PricedDocs ==
    {PricedDoc(PricedItem(price, original)) :
        price \in PriceChoices, original \in OriginalChoices}

NextPrices ==
    \/ FetchCities({})
    \/ FetchRetailMarkets({OneVenueListing})
    \/ AppendMarket
    \/ FetchVenueDetails(PricedDocs)
    \/ ExtractItems
    \/ SaveToCsv

SpecPrices == Init /\ [][NextPrices]_vars

----------------------------------------------------------------------------
(* The same venue discovered twice, against an upstream that answers a     *)
(* catalog request with the document kept under the slug                   *)

\* the k-th price and the j-th original price of the priced items
PriceAt(k) == IF k = 0 THEN None ELSE JInt(MinorUnits(k - 2))
OriginalAt(j) ==
    IF j = 0 THEN None ELSE IF j = 1 THEN JNull ELSE JInt(MinorUnits(j - 2))

RepeatSlug(k, j) == "m-" \o ToString(k) \o "-" \o ToString(j)

\* the catalog of the upstream: the document kept under each slug
RepeatCatalog ==
    {[slug |-> RepeatSlug(k, j),
      doc |-> PricedDoc(PricedItem(PriceAt(k), OriginalAt(j)))] :
        k \in 0..(MaxPrice + 2), j \in 0..(MaxPrice + 2)}

CatalogAt(slug) == {e.doc : e \in {x \in RepeatCatalog : x.slug = slug}}

\* a listing that carries the same venue in two sections
RepeatListings ==
    {[city |-> "Baku",
      sections |-> <<[items |-> <<Wrap([id |-> "r", name |-> "Repeated",
                                        slug |-> e.slug])>>],
                     [items |-> <<Wrap([id |-> "r", name |-> "Repeated",
                                        slug |-> e.slug])>>]>>] :
        e \in RepeatCatalog}

NextRepeat ==
    \/ FetchCities({})
    \/ FetchRetailMarkets(RepeatListings)
    \/ AppendMarket
    \/ FetchVenueDetails(IF pc = "fetch_venue_details"
                         THEN CatalogAt(Get(markets[market], "slug", ""))
                         ELSE {})
    \/ ExtractItems
    \/ SaveToCsv

SpecRepeat == Init /\ [][NextRepeat]_vars

----------------------------------------------------------------------------
(* Properties *)

Before2(p, q) == p[1] < q[1] \/ (p[1] = q[1] /\ p[2] < q[2])
Before3(p, q) ==
    p[1] < q[1] \/ (p[1] = q[1] /\ Before2(<<p[2], p[3]>>, <<q[2], q[3]>>))

Last(seq) == seq[Len(seq)]

\* run() has left the market loop without an exception
CrawlReturned == pc \in {"save_to_csv", "done"}

\* C1: a step of the catalog fetch in which the gateway returns None leaves
\* the Venue output with the record of that market as its last record (the
\* one record appended per discovered entry: in the first city the output
\* has as many records as entries were reached), adds nothing to the Product
\* output, raises nothing, and goes on to the next discovered market when
\* there is one.
C1_FailedFetchKeepsVenue ==
    [][(pc = "fetch_venue_details" /\ clock' = clock + 1
            /\ venue_details' = None)
        => /\ self_markets' = self_markets
           /\ self_items' = self_items
           /\ self_markets # <<>>
           /\ Last(self_markets).venue_id = Get(markets[market], "id", "")
           /\ Last(self_markets).slug = Get(markets[market], "slug", "")
           /\ (city = 1 => Len(self_markets) = market)
           /\ raised' = NoException
           /\ pc' \in {"append_market", "fetch_retail_markets", "save_to_csv"}
           /\ (market < Len(markets)
                 => pc' = "append_market" /\ market' = market + 1)]_vars

\* the catalog fetch of the first market failed, nothing was extracted, and
\* the second market has been appended
C1_Witness ==
    /\ pc = "fetch_venue_details"
    /\ market = 2
    /\ venue_details = None
    /\ Len(self_markets) = 2
    /\ self_items = <<>>

\* C2: extract_items_from_venue never raises, whatever document the catalog
\* fetch returned, so run() never handles an exception of the normalizer.
C2_NormalizerNeverRaises == raised.origin # "extract_items_from_venue"

\* C3 as stated: no call of make_request raises, whatever the method.
C3_GatewayNeverRaises == last_call.raised = "none"

\* C3 amended: a call of make_request with the method GET or POST, in any
\* letter case, never raises: it returns the decoded body when the transport
\* answers with a status outside 400..599 and a body that is valid JSON, and
\* None for every other outcome of the transport; a call with any other
\* method raises ValueError.
C3_GetPostNeverRaise ==
    last_call # NoCall =>
        IF last_call.method \in {"GET", "get", "POST", "post"}
        THEN /\ last_call.raised = "none"
             /\ last_call.value =
                  IF /\ last_call.transport.kind = "response"
                     /\ ~(last_call.transport.status \in 400..599)
                     /\ last_call.transport.body # InvalidJson
                  THEN last_call.transport.body
                  ELSE None
        ELSE last_call.raised = "ValueError"

\* a POST answered with status 200 and a body that is not JSON returned None
C3_Witness ==
    /\ last_call.method = "post"
    /\ last_call.transport = Response(200, InvalidJson)
    /\ last_call.raised = "none"
    /\ last_call.value = None

\* C4: when run() propagates an exception after records were accumulated,
\* save_to_csv has been attempted: the files of the run are written.
C4_FlushBeforePropagation ==
    (pc = "raised" /\ (self_markets # <<>> \/ self_items # <<>>))
        => files # {}

\* C5: when run() has returned, the Venue file, the Product file and the
\* summary are all written.
C5_CompletedRunWritesPair ==
    pc = "done" =>
        {MarketsFile, ItemsFile, SummaryFile} \subseteq files

\* C6: a step of discovery in which the gateway returns None yields no
\* market; a step of discovery that yields no market raises nothing, adds no
\* record, and moves on to the next city (markets.py) or, after the last
\* city and in markets_baku.py, ends the crawl; in markets_baku.py the
\* outputs are then empty.
C6_EmptyDiscoveryIsTerminalForCity ==
    [][(pc = "fetch_retail_markets" /\ clock' = clock + 1)
        => /\ (data' = None => markets' = <<>>)
           /\ (markets' = <<>>
                 => /\ raised' = NoException
                    /\ self_markets' = self_markets
                    /\ self_items' = self_items
                    /\ IF script = "markets" /\ city < Len(cities)
                       THEN pc' = "fetch_retail_markets" /\ city' = city + 1
                       ELSE pc' = "save_to_csv"
                    /\ (script = "markets_baku"
                          => self_markets' = <<>> /\ self_items' = <<>>))]_vars

\* the discovery of the first city failed and the second city is next
C6_Witness ==
    /\ script = "markets"
    /\ pc = "fetch_retail_markets"
    /\ city = 2
    /\ data = None
    /\ last_call.url = RetailUrl(DEFAULT_LAT, DEFAULT_LON)
    /\ last_call.value = None

\* the positions <<section, wrapper>> of a listing that carry a venue
VenuePositions(sections) ==
    UNION {{<<s, k>> : k \in {j \in DOMAIN Get(sections[s], "items", <<>>) :
                                "venue" \in DOMAIN sections[s].items[j]}} :
           s \in DOMAIN sections}

NonVenueCount(sections) ==
    Cardinality(UNION {{<<s, k>> :
                          k \in {j \in DOMAIN Get(sections[s], "items", <<>>) :
                                   "venue" \notin DOMAIN sections[s].items[j]}} :
                       s \in DOMAIN sections})

\* C7: the markets discovered from a listing are as many as its wrappers
\* that carry a venue, and the n-th market is the venue of the n-th such
\* wrapper in the order of the response.
C7_OneVenuePerVenueWrapper ==
    Truthy(data) =>
        LET sections == Get(data, "sections", <<>>)
            P == VenuePositions(sections)
        IN  /\ Len(markets) = Cardinality(P)
            /\ \A p \in P :
                  LET n == Cardinality({q \in P : Before2(q, p)}) + 1
                      venue == sections[p[1]].items[p[2]].venue
                  IN  /\ Get(markets[n], "id", "") = Get(venue, "id", "")
                      /\ Get(markets[n], "slug", "") = Get(venue, "slug", "")
                      /\ Get(markets[n], "name", "") = Get(venue, "name", "")

\* a listing of 3 venue wrappers and 2 other wrappers gave 3 markets
C7_Witness ==
    /\ Truthy(data)
    /\ Cardinality(VenuePositions(Get(data, "sections", <<>>))) = 3
    /\ NonVenueCount(Get(data, "sections", <<>>)) = 2
    /\ Len(Get(data, "sections", <<>>)) = 2
    /\ Len(markets) = 3

\* the positions <<section, item>> of the items embedded in sections
InlinePositions(sections) ==
    UNION {{<<s, k>> : k \in DOMAIN Get(sections[s], "items", <<>>)} :
           s \in DOMAIN sections}

\* the positions <<section, category, id>> of the listed ids
ListedPositions(sections) ==
    UNION {UNION {{<<s, c, k>> :
                     k \in DOMAIN Get(sections[s].categories[c], "item_ids", <<>>)} :
                  c \in DOMAIN Get(sections[s], "categories", <<>>)} :
           s \in DOMAIN sections}

ListedId(sections, p) == sections[p[1]].categories[p[2]].item_ids[p[3]]

PoolIds(doc) ==
    LET pool == Get(doc, "items", <<>>)
    IN  {pool[i].id : i \in {j \in DOMAIN pool : "id" \in DOMAIN pool[j]}}

\* the detection policy: a non-empty item pool and categories in a section
IsShapeA(doc) ==
    /\ Get(doc, "items", <<>>) # <<>>
    /\ \E s \in DOMAIN Get(doc, "sections", <<>>) :
          "categories" \in DOMAIN doc.sections[s]

\* C8: whichever script runs, the products extracted from a document are
\* those of its shape: one per listed id of the pool for a Shape-A document,
\* one per embedded item for any other document.
C8_BothShapesNormalized ==
    (CrawlReturned /\ Truthy(venue_details) /\ Len(self_markets) = 1)
        => Len(self_items) =
              IF IsShapeA(venue_details)
              THEN Cardinality({p \in ListedPositions(venue_details.sections) :
                       ListedId(venue_details.sections, p)
                           \in PoolIds(venue_details)})
              ELSE Cardinality(InlinePositions(
                       Get(venue_details, "sections", <<>>)))

\* C9: when the normalizer of markets.py returns, its products are, in the
\* order of sections, categories and listed ids, one per listed id that is a
\* key of the lookup table, each with the section and the category that list
\* it; when it raises, an item of the pool has no id or a listed item of the
\* pool is malformed: an id absent from the pool is never the cause.
C9_IndexedWalkSkipsUnknownIds ==
    (script = "markets" /\ Truthy(venue_details) /\ Len(self_markets) = 1)
        => LET sections == Get(venue_details, "sections", <<>>)
               pool == Get(venue_details, "items", <<>>)
               listed == ListedPositions(sections)
           IN  /\ CrawlReturned =>
                    LET P == {p \in listed :
                                ListedId(sections, p) \in PoolIds(venue_details)}
                    IN  /\ Len(self_items) = Cardinality(P)
                        /\ \A p \in P :
                             LET n == Cardinality({q \in P : Before3(q, p)}) + 1
                             IN  /\ self_items[n].item_id = ListedId(sections, p)
                                 /\ self_items[n].section_name =
                                        Get(sections[p[1]], "name", "")
                                 /\ self_items[n].section_slug =
                                        Get(sections[p[1]], "slug", "")
                                 /\ self_items[n].category_id =
                                        Get(sections[p[1]].categories[p[2]],
                                            "id", "")
               /\ raised.origin = "extract_items_from_venue" =>
                    \/ \E i \in DOMAIN pool : "id" \notin DOMAIN pool[i]
                    \/ \E p \in listed : \E i \in DOMAIN pool :
                          /\ Get(pool[i], "id", "") = ListedId(sections, p)
                          /\ ItemError("markets", pool[i]) # "none"

\* markets.py returned products from a document that lists, in one
\* category, an id absent from the pool before an id of the pool
C9_Witness ==
    /\ script = "markets"
    /\ pc = "done"
    /\ Truthy(venue_details)
    /\ self_items # <<>>
    /\ \E p \in ListedPositions(Get(venue_details, "sections", <<>>)) :
          /\ ListedId(venue_details.sections, p) \notin PoolIds(venue_details)
          /\ \E q \in ListedPositions(venue_details.sections) :
                /\ q[1] = p[1] /\ q[2] = p[2] /\ q[3] > p[3]
                /\ ListedId(venue_details.sections, q) \in PoolIds(venue_details)

\* C10: when the normalizer of markets_baku.py returns, its products are as
\* many as the items embedded in the sections of the document, and the n-th
\* product has the id of the n-th embedded item and the name and slug of the
\* section that embeds it.
C10_InlineCountAndAttribution ==
    (script = "markets_baku" /\ Truthy(venue_details) /\ CrawlReturned
        /\ Len(self_markets) = 1)
        => LET sections == Get(venue_details, "sections", <<>>)
               P == InlinePositions(sections)
           IN  /\ Len(self_items) = Cardinality(P)
               /\ \A p \in P :
                    LET n == Cardinality({q \in P : Before2(q, p)}) + 1
                    IN  /\ self_items[n].item_id =
                              Get(sections[p[1]].items[p[2]], "id", "")
                        /\ self_items[n].section_name =
                              Get(sections[p[1]], "name", "")
                        /\ self_items[n].section_slug =
                              Get(sections[p[1]], "slug", "")

\* markets_baku.py returned 2 products from a document whose first section
\* embeds no item and whose second section embeds 2
C10_Witness ==
    /\ script = "markets_baku"
    /\ pc = "done"
    /\ Truthy(venue_details)
    /\ Len(Get(venue_details, "sections", <<>>)) = 2
    /\ Get(venue_details.sections[1], "items", <<>>) = <<>>
    /\ Len(Get(venue_details.sections[2], "items", <<>>)) = 2
    /\ Len(self_items) = 2
    /\ self_items[2].section_name = "Snacks"

\* C11: a document without a sections key, whatever its other keys hold,
\* gives no product and no exception of the normalizer.
C11_NoSectionsYieldsNothing ==
    (Truthy(venue_details) /\ "sections" \notin DOMAIN venue_details
        /\ Len(self_markets) = 1)
        => /\ raised.origin # "extract_items_from_venue"
           /\ self_items = <<>>

\* C12: when the items of the pool are otherwise well formed (each has an id
\* and a numeric price), the normalizer returns, and the tags and the
\* dietary_preferences of each product are the plain identifiers of the
\* elements of the item's lists, joined by commas in element order, whether
\* the elements are strings or objects carrying an id.
C12_TagObjectsJoinLikeStrings ==
    LET pool == Get(venue_details, "items", <<>>)
    IN  (script = "markets" /\ Truthy(venue_details) /\ pc # "extract_items"
            /\ Len(self_markets) = 1
            /\ \A i \in DOMAIN pool :
                  /\ "id" \in DOMAIN pool[i]
                  /\ IsInt(Get(pool[i], "price", JInt(0))))
            => /\ raised = NoException
               /\ \A n \in DOMAIN self_items :
                     \E i \in DOMAIN pool :
                        /\ pool[i].id = self_items[n].item_id
                        /\ self_items[n].tags =
                              Join(PlainIds(Get(pool[i], "tags", <<>>)))
                        /\ self_items[n].dietary_preferences =
                              Join(PlainIds(Get(pool[i], "dietary_preferences",
                                                <<>>)))

\* the ids of the pool that no category lists
UnreferencedIds(doc) ==
    PoolIds(doc) \ {ListedId(doc.sections, p) :
                        p \in ListedPositions(Get(doc, "sections", <<>>))}

\* markets.py returned from the one Shape-A document of the run
IndexedReturned ==
    /\ script = "markets"
    /\ CrawlReturned
    /\ Truthy(venue_details)
    /\ Len(self_markets) = 1
    /\ IsShapeA(venue_details)

\* C13 as stated: a Shape-A document whose pool has an id that no category
\* lists gives fewer products than the pool has items.
C13_FewerProductsThanPool ==
    (IndexedReturned /\ UnreferencedIds(venue_details) # {})
        => Len(self_items) < Len(venue_details.items)

\* C13 amended: a Shape-A document whose pool has an id that no category
\* lists, and in which no id is listed at two positions, gives fewer
\* products than the pool has items.
C13_FewerProductsWhenListedOnce ==
    (IndexedReturned /\ UnreferencedIds(venue_details) # {}
        /\ \A p, q \in ListedPositions(venue_details.sections) :
              ListedId(venue_details.sections, p)
                  = ListedId(venue_details.sections, q) => p = q)
        => Len(self_items) < Len(venue_details.items)

\* markets.py returned 1 product from a pool of 2 items, one of them listed
\* by no category, whose sections list 2 ids
C13_Witness ==
    /\ IndexedReturned
    /\ Len(venue_details.items) = 2
    /\ Cardinality(UnreferencedIds(venue_details)) = 1
    /\ Cardinality(ListedPositions(venue_details.sections)) = 2
    /\ Len(self_items) = 1

\* a float of hundredths, as a number of hundredths
Hundredths(f) == f.units * 100 + f.hundredths

Abs(n) == IF n < 0 THEN 0 - n ELSE n

\* the run returned with the one product of a priced document
PricedProductExtracted ==
    /\ CrawlReturned
    /\ Truthy(venue_details)
    /\ Len(self_items) = 1

\* the price and the original price of the item of a priced document, 0 when
\* the key is missing or null
SourcePrice == Get(venue_details.items[1], "price", JInt(0)).int
SourceOriginal ==
    LET original == Get(venue_details.items[1], "original_price", JNull)
    IN  IF IsInt(original) THEN original.int ELSE 0

\* C14: the product of an item without an original_price key has no
\* original price, a discount amount of 0 and a discount percentage of 0,
\* whatever the price of the item.
C14_NoOriginalPriceNoDiscount ==
    (PricedProductExtracted
        /\ "original_price" \notin DOMAIN venue_details.items[1])
        => /\ self_items[1].original_price = None
           /\ Hundredths(self_items[1].discount_amount) = 0
           /\ Hundredths(self_items[1].discount_percentage) = 0

\* an item priced 150 without an original price gave a product priced 1.50
\* without a discount
C14_Witness ==
    /\ PricedProductExtracted
    /\ "original_price" \notin DOMAIN venue_details.items[1]
    /\ SourcePrice = 150
    /\ Hundredths(self_items[1].price) = 150
    /\ Hundredths(self_items[1].discount_amount) = 0

\* C15: the product of an item whose original price is positive and greater
\* than its price has a discount amount of (original_price - price) / 100
\* and a discount percentage that is the multiple of 0.01 nearest to
\* (original_price - price) / original_price * 100.
C15_DiscountOfReducedItem ==
    (PricedProductExtracted /\ SourceOriginal > 0
        /\ SourceOriginal > SourcePrice)
        => /\ Hundredths(self_items[1].discount_amount)
                = SourceOriginal - SourcePrice
           /\ 2 * Abs(Hundredths(self_items[1].discount_percentage)
                        * SourceOriginal
                      - (SourceOriginal - SourcePrice) * 10000)
                <= SourceOriginal

\* an item priced 50 with an original price of 150 gave a discount of 1.00
\* and 66.67 percent
C15_Witness ==
    /\ PricedProductExtracted
    /\ SourcePrice = 50
    /\ SourceOriginal = 150
    /\ Hundredths(self_items[1].discount_amount) = 100
    /\ Hundredths(self_items[1].discount_percentage) = 6667

\* C16: the product of an item whose original price is absent, null or not
\* greater than its price has a discount percentage of 0.
C16_NoDiscountUnlessReduced ==
    (PricedProductExtracted
        /\ (SourceOriginal = 0 \/ SourceOriginal <= SourcePrice))
        => Hundredths(self_items[1].discount_percentage) = 0

\* C17: the price of every product is at least 0.
C17_PriceNonNegative ==
    \A n \in DOMAIN self_items : Hundredths(self_items[n].price) >= 0

\* C18: no two records of self.markets have the same venue_id.
C18_VenueIdUnique ==
    \A i, j \in DOMAIN self_markets :
        self_markets[i].venue_id = self_markets[j].venue_id => i = j

\* C19: the venue_id of every record of self.items is the venue_id of a
\* record of self.markets.
C19_ProductsReferenceVenues ==
    \A n \in DOMAIN self_items :
        \E m \in DOMAIN self_markets :
            self_markets[m].venue_id = self_items[n].venue_id

\* products were extracted for the first of two markets of different ids,
\* and the second market has been appended
C19_Witness ==
    /\ Len(self_markets) = 2
    /\ self_markets[1].venue_id # self_markets[2].venue_id
    /\ self_items # <<>>
    /\ \A n \in DOMAIN self_items :
          self_items[n].venue_id = self_markets[1].venue_id

\* C20: no catalog request is issued with an empty slug.
C20_CatalogFetchNeedsSlug ==
    last_call.url # VenueContentUrl("")

EffectPositions(effects, e) == {i \in DOMAIN effects : effects[i] = e}

\* C22: every call of make_request, returning a document, returning None or
\* raising, sleeps one delay as its first effect and issues at most one HTTP
\* request, after the delay.
C22_DelayBeforeEveryRequest ==
    last_call # NoCall =>
        /\ last_call.effects # <<>>
        /\ last_call.effects[1] = "sleep"
        /\ Cardinality(EffectPositions(last_call.effects, "sleep")) = 1
        /\ Cardinality(EffectPositions(last_call.effects, "send")) <= 1
        /\ \A i \in EffectPositions(last_call.effects, "send") : i > 1
        /\ last_call.slept = 1
        /\ last_call.sent
              = Cardinality(EffectPositions(last_call.effects, "send"))

\* a request that timed out was issued after the delay of its call
C22_Witness ==
    /\ last_call.transport = TransportError("Timeout")
    /\ last_call.method = "GET"
    /\ last_call.value = None
    /\ last_call.effects = <<"sleep", "send">>

\* seq is the beginning of longer
IsPrefix(seq, longer) ==
    /\ Len(seq) <= Len(longer)
    /\ \A i \in DOMAIN seq : longer[i] = seq[i]

\* C23: a record is added to self.markets only at the start of the
\* processing of a market, as the last record, and the catalog fetch of that
\* market follows; the catalog fetch is issued for the slug of the market
\* whose record is the last one, and the normalizer runs next only when a
\* document was returned; records are added to self.items only by the
\* normalizer of the market whose record is the last one, so they carry its
\* venue_id; the next market begins, in discovery order, only after the
\* catalog fetch or the normalizer of the current one.
C23_VenuesProcessedInOrder ==
    [][/\ self_markets' # self_markets =>
            /\ pc = "append_market"
            /\ self_items' = self_items
            /\ Len(self_markets') = Len(self_markets) + 1
            /\ Last(self_markets').venue_id = Get(markets[market], "id", "")
            /\ pc' = "fetch_venue_details"
            /\ market' = market
       /\ (pc = "fetch_venue_details" /\ pc' # pc) =>
            /\ last_call'.url
                  = VenueContentUrl(Get(markets[market], "slug", ""))
            /\ Last(self_markets).venue_id = Get(markets[market], "id", "")
            /\ self_items' = self_items
            /\ IF Truthy(venue_details')
               THEN pc' = "extract_items" /\ market' = market
               ELSE pc' # "extract_items"
       /\ self_items' # self_items =>
            /\ pc = "extract_items"
            /\ Truthy(venue_details)
            /\ self_markets' = self_markets
            /\ IsPrefix(self_items, self_items')
            /\ \A n \in (Len(self_items) + 1)..Len(self_items') :
                  self_items'[n].venue_id = Last(self_markets).venue_id
       /\ pc' = "append_market" =>
            \/ pc = "fetch_retail_markets" /\ market' = 1
            \/ /\ pc \in {"fetch_venue_details", "extract_items"}
               /\ market' = market + 1
               /\ city' = city]_vars

\* the first market gave products, the record of the second market has been
\* appended, a document was fetched for it, and its normalizer is next
C23_Witness ==
    /\ pc = "extract_items"
    /\ market = 2
    /\ Len(self_markets) = 2
    /\ self_markets[1].venue_id # self_markets[2].venue_id
    /\ self_items # <<>>
    /\ Truthy(venue_details)

\* C24: when a run of markets_baku.py has ended, 1 + V calls of the gateway
\* have been made, V being the number of markets discovered.
C24_OneCallPerVenue ==
    (script = "markets_baku" /\ pc \in {"done", "raised"})
        => clock = 1 + Len(markets)

\* C25: every step leaves the records of self.markets and of self.items
\* where they are and as they are; it only adds records at the end.
C25_OutputsAppendOnly ==
    [][/\ IsPrefix(self_markets, self_markets')
       /\ IsPrefix(self_items, self_items')]_vars

\* the products of the first market are kept, the record of the second
\* market has been added, and its catalog fetch failed
C25_Witness ==
    /\ pc = "save_to_csv"
    /\ market = 2
    /\ Len(self_markets) = 2
    /\ venue_details = None
    /\ self_items # <<>>
    /\ \A n \in DOMAIN self_items :
          self_items[n].venue_id = self_markets[1].venue_id

====
